---- MODULE Spec2Model ----
(***************************************************************************)
(* Model of the card-wagering state machine of src/main.rs: the GameState  *)
(* struct (one optional Game, the stakes ledger, the do_not_use marker     *)
(* map) and its methods initialize, start_game, join_game, reveal_cards,   *)
(* reentrant_transfer, stake_tokens and withdraw_stake.                    *)
(*                                                                         *)
(* Every method is an operator from a GameState value (and its inputs) to  *)
(* the GameState after the call and the value returned; the actions apply  *)
(* the operators to the variables.  The reading of the system clock and    *)
(* the random card are inputs of the calls that take them.  A u64 amount   *)
(* is modelled as 0..U64Max, a u64 timestamp as 0..TimestampMax.           *)
(*                                                                         *)
(* Spec runs every call as one step.  SpecSettle runs reveal_cards as the  *)
(* steps of its payout path (lines 114-146, 161-165, 167, 168, 147-150),   *)
(* which shows the states inside the call: the marker set around the       *)
(* transfer, and the transfer made before `game.is_settled = true`.  The   *)
(* methods take &mut self and have no point of suspension, so one call     *)
(* runs from its entry to its return before the next call begins.          *)
(***************************************************************************)
EXTENDS Integers, Sequences, FiniteSets, TLC

\* ---------------------------------------------------------------- bounds
\* Largest value of the modelled unsigned word (u64::MAX in the source).
U64Max == 2
\* Latest reading of the modelled clock, in seconds after UNIX_EPOCH.
MaxNow == 601
\* Largest value of the modelled timestamp word (u64::MAX in the source); it
\* lies beyond every reading of the clock plus the expiry window.
TimestampMax == 2000

\* ------------------------------------------------------------- constants
\* Participants of the model (identities are arbitrary strings in the source).
Users == {"Alice", "Bob"}
\* reveal_cards: `get_current_timestamp() - game.start_time > 600`
ExpirySeconds == 600
\* A reading of SystemTime::now() that lies before UNIX_EPOCH.
BeforeEpoch == -1
\* The readings of SystemTime::now() the model explores, in seconds relative
\* to UNIX_EPOCH.  The system clock is not monotonic: a call may read any of
\* them, whatever the calls before it have read.
ClockReadings == {BeforeEpoch, 0, ExpirySeconds, MaxNow}
\* draw_card: gen_range(1..=13)
CardMin == 1
CardMax == 13

\* Unchecked u64 arithmetic panics in a build with overflow checks (debug)
\* and wraps in a build without them (release).
OverflowChecks == BOOLEAN

\* Result<(), String> values returned by the methods.
Ok == "Ok"
ErrGameInProgress == "Game already started."
ErrInsufficientStake == "Insufficient stake."
ErrOverflow == "Overflow error."
ErrAlreadyJoined == "Game already joined."
ErrSelfJoin == "Cannot join your own game."
ErrNoGameToJoin == "No game to join."
ErrAlreadySettled == "Game already settled."
ErrExpired == "Game expired."
ErrNoGameToReveal == "No game to reveal."
ErrReentrancy == "Reentrancy attack detected."
ErrUserNotFound == "User not found."
ErrInsufficientFunds == "Insufficient funds."
\* A panic (Option::unwrap on None, Result::expect on Err, arithmetic overflow
\* with overflow checks).
Panic == "panic"

Errors == {ErrGameInProgress, ErrInsufficientStake, ErrOverflow, ErrAlreadyJoined,
           ErrSelfJoin, ErrNoGameToJoin, ErrAlreadySettled, ErrExpired,
           ErrNoGameToReveal, ErrReentrancy, ErrUserNotFound, ErrInsufficientFunds}

\* ------------------------------------------------------ Option and HashMap
\* Option<T>: None is the empty sequence, Some(v) the one-element sequence.
None == << >>
Some(v) == << v >>
is_some(o) == o # None
unwrap(o) == o[1]

\* HashMap<String, V>: a function whose domain is the set of keys present.
EmptyMap == [k \in {} |-> 0]
contains_key(m, k) == k \in DOMAIN m
get(m, k) == IF k \in DOMAIN m THEN Some(m[k]) ELSE None
unwrap_or(o, d) == IF is_some(o) THEN unwrap(o) ELSE d
insert(m, k, v) == [x \in (DOMAIN m) \cup {k} |-> IF x = k THEN v ELSE m[x]]
remove(m, k) == [x \in (DOMAIN m) \ {k} |-> m[x]]

\* u64 arithmetic.
checked_add(a, b) == IF a + b > U64Max THEN None ELSE Some(a + b)
checked_sub(a, b) == IF a < b THEN None ELSE Some(a - b)
wrapping(n) == n % (U64Max + 1)

\* get_current_timestamp: clock is the reading of SystemTime::now().  For a
\* reading before UNIX_EPOCH duration_since returns Err and expect panics:
\* None stands for that panic.
get_current_timestamp(clock) == IF clock < 0 THEN None ELSE Some(clock)

\* reveal_cards, line 119: the unchecked subtraction
\* `get_current_timestamp() - game.start_time` of two u64.  When t is below
\* start_time it panics in a build with overflow checks (None) and wraps in a
\* build without them.
elapsed(t, start_time, checks) ==
    IF t >= start_time THEN Some(t - start_time)
    ELSE IF checks THEN None
    ELSE Some(t - start_time + TimestampMax + 1)

\* What a method call yields: the GameState after it and the value returned.
Ret(gs, res) == [gs |-> gs, res |-> res]

\* ---------------------------------------------------------------- methods
\* GameState::new
new == [current_game |-> None, stakes |-> EmptyMap, do_not_use |-> EmptyMap]

\* GameState::initialize
initialize(gs) ==
    [current_game |-> None, stakes |-> EmptyMap, do_not_use |-> EmptyMap]

\* start_game, lines 46-65: the debit of the creator (line 52), then the new
\* Game, whose start_time is read from the clock (line 61) after the debit:
\* when that read panics the debit stays and no game is created.
start_new_game(gs, creator, bet, clock) ==
    LET user_stake == unwrap_or(get(gs.stakes, creator), 0) IN
      IF user_stake < bet THEN Ret(gs, ErrInsufficientStake)
      ELSE LET new_stake == checked_sub(user_stake, bet) IN
        IF new_stake = None THEN Ret(gs, ErrOverflow)
        ELSE LET debited == [gs EXCEPT !.stakes = insert(gs.stakes, creator, unwrap(new_stake))]
                 start_time == get_current_timestamp(clock)
             IN IF start_time = None THEN Ret(debited, Panic)
                ELSE Ret([debited EXCEPT
                            !.current_game = Some([creator |-> creator,
                                                   bet_amount |-> bet,
                                                   opponent |-> None,
                                                   creator_card |-> None,
                                                   opponent_card |-> None,
                                                   is_settled |-> FALSE,
                                                   start_time |-> unwrap(start_time)])],
                         Ok)

\* Mutant of start_game: the check of line 42 is missing.
start_game_unguarded(gs, creator, bet, clock) == start_new_game(gs, creator, bet, clock)

\* Mutant of start_game: a settled game does not block a new one.
start_game_replace_settled(gs, creator, bet, clock) ==
    IF is_some(gs.current_game) /\ ~unwrap(gs.current_game).is_settled
      THEN Ret(gs, ErrGameInProgress)
    ELSE start_new_game(gs, creator, bet, clock)

\* start_game reaches get_current_timestamp() at line 61: no game is present
\* and the creator's balance covers the bet.
start_game_reads_clock(gs, creator, bet) ==
    /\ ~is_some(gs.current_game)
    /\ unwrap_or(get(gs.stakes, creator), 0) >= bet

\* GameState::start_game; clock is the reading of SystemTime::now().
\* Game.stakes, the copy of the ledger taken at line 62, is written once and
\* read by no method: the Game record of the model leaves it out.
start_game(gs, creator, bet, clock) ==
    IF is_some(gs.current_game) THEN Ret(gs, ErrGameInProgress)
    ELSE start_new_game(gs, creator, bet, clock)

\* Mutant of join_game: the creator check of line 74 is missing.
join_game_self_allowed(gs, opponent, card) ==
    IF is_some(gs.current_game) THEN
      LET game == unwrap(gs.current_game) IN
      IF is_some(game.opponent) THEN Ret(gs, ErrAlreadyJoined)
      ELSE LET user_stake == unwrap_or(get(gs.stakes, opponent), 0) IN
        IF user_stake < game.bet_amount THEN Ret(gs, ErrInsufficientStake)
        ELSE Ret([gs EXCEPT !.stakes = insert(gs.stakes, opponent,
                                              user_stake - game.bet_amount),
                            !.current_game = Some([game EXCEPT
                                                    !.opponent = Some(opponent),
                                                    !.opponent_card = Some(card)])],
                 Ok)
    ELSE Ret(gs, ErrNoGameToJoin)

\* Mutant of join_game: the creator's card is drawn at the join as well.
join_game_draws_both(gs, opponent, card) ==
    IF is_some(gs.current_game) THEN
      LET game == unwrap(gs.current_game) IN
      IF is_some(game.opponent) THEN Ret(gs, ErrAlreadyJoined)
      ELSE IF game.creator = opponent THEN Ret(gs, ErrSelfJoin)
      ELSE LET user_stake == unwrap_or(get(gs.stakes, opponent), 0) IN
        IF user_stake < game.bet_amount THEN Ret(gs, ErrInsufficientStake)
        ELSE Ret([gs EXCEPT !.stakes = insert(gs.stakes, opponent,
                                              user_stake - game.bet_amount),
                            !.current_game = Some([game EXCEPT
                                                    !.opponent = Some(opponent),
                                                    !.opponent_card = Some(card),
                                                    !.creator_card = Some(card)])],
                 Ok)
    ELSE Ret(gs, ErrNoGameToJoin)

\* Mutant of join_game: the opponent check of line 70 is missing.
join_game_rejoin(gs, opponent, card) ==
    IF is_some(gs.current_game) THEN
      LET game == unwrap(gs.current_game) IN
      IF game.creator = opponent THEN Ret(gs, ErrSelfJoin)
      ELSE LET user_stake == unwrap_or(get(gs.stakes, opponent), 0) IN
        IF user_stake < game.bet_amount THEN Ret(gs, ErrInsufficientStake)
        ELSE Ret([gs EXCEPT !.stakes = insert(gs.stakes, opponent,
                                              user_stake - game.bet_amount),
                            !.current_game = Some([game EXCEPT
                                                    !.opponent = Some(opponent),
                                                    !.opponent_card = Some(card)])],
                 Ok)
    ELSE Ret(gs, ErrNoGameToJoin)

\* GameState::join_game; card is the value of draw_card().
join_game(gs, opponent, card) ==
    IF is_some(gs.current_game) THEN
      LET game == unwrap(gs.current_game) IN
      IF is_some(game.opponent) THEN Ret(gs, ErrAlreadyJoined)
      ELSE IF game.creator = opponent THEN Ret(gs, ErrSelfJoin)
      ELSE LET user_stake == unwrap_or(get(gs.stakes, opponent), 0) IN
        IF user_stake < game.bet_amount THEN Ret(gs, ErrInsufficientStake)
        ELSE LET new_stake == checked_sub(user_stake, game.bet_amount) IN
          IF new_stake = None THEN Ret(gs, ErrOverflow)
          ELSE Ret([gs EXCEPT !.stakes = insert(gs.stakes, opponent, unwrap(new_stake)),
                              !.current_game = Some([game EXCEPT
                                                      !.opponent = Some(opponent),
                                                      !.opponent_card = Some(card)])],
                   Ok)
    ELSE Ret(gs, ErrNoGameToJoin)

\* reentrant_transfer, line 165: the marker of the winner is set.
set_marker(gs, winner) ==
    [gs EXCEPT !.do_not_use = insert(gs.do_not_use, winner, TRUE)]

\* reentrant_transfer, line 168: the marker of the winner is cleared.
clear_marker(gs, winner) ==
    [gs EXCEPT !.do_not_use = remove(gs.do_not_use, winner)]

\* GameState::reentrant_transfer: sets the marker, prints, clears the marker.
\* The ledger is not touched.
reentrant_transfer(gs, winner, amount) ==
    IF contains_key(gs.do_not_use, winner) THEN Ret(gs, ErrReentrancy)
    ELSE LET marked == set_marker(gs, winner)
             cleared == clear_marker(marked, winner)
         IN Ret(cleared, Ok)

\* Mutant of settle_draw: each participant is refunded the whole pot, 2 x bet,
\* instead of the own bet.
settle_draw_whole_pot(gs, checks) ==
    LET game == unwrap(gs.current_game)
        sum1 == unwrap(get(gs.stakes, game.creator)) + game.bet_amount * 2
    IN IF sum1 > U64Max /\ checks THEN Ret(gs, Panic)
       ELSE LET gs1 == [gs EXCEPT !.stakes = insert(gs.stakes, game.creator, wrapping(sum1))]
                sum2 == unwrap(get(gs1.stakes, unwrap(game.opponent))) + game.bet_amount * 2
            IN IF sum2 > U64Max /\ checks THEN Ret(gs1, Panic)
               ELSE Ret([gs1 EXCEPT
                           !.stakes = insert(gs1.stakes, unwrap(game.opponent), wrapping(sum2)),
                           !.current_game = Some([game EXCEPT !.is_settled = TRUE])],
                        Ok)

\* The draw branch of reveal_cards (lines 137-142): two unchecked additions.
\* gs already holds the creator's card.
settle_draw(gs, checks) ==
    LET game == unwrap(gs.current_game)
        sum1 == unwrap(get(gs.stakes, game.creator)) + game.bet_amount
    IN IF sum1 > U64Max /\ checks THEN Ret(gs, Panic)
       ELSE LET gs1 == [gs EXCEPT !.stakes = insert(gs.stakes, game.creator, wrapping(sum1))]
                sum2 == unwrap(get(gs1.stakes, unwrap(game.opponent))) + game.bet_amount
            IN IF sum2 > U64Max /\ checks THEN Ret(gs1, Panic)
               ELSE Ret([gs1 EXCEPT
                           !.stakes = insert(gs1.stakes, unwrap(game.opponent), wrapping(sum2)),
                           !.current_game = Some([game EXCEPT !.is_settled = TRUE])],
                        Ok)

\* The payout branch of reveal_cards (lines 146-152): bet_amount * 2 is
\* unchecked.  gs already holds the creator's card.
settle_winner(gs, winner, checks) ==
    LET game == unwrap(gs.current_game)
        amount == game.bet_amount * 2
    IN IF amount > U64Max /\ checks THEN Ret(gs, Panic)
       ELSE LET r == reentrant_transfer(gs, winner, wrapping(amount)) IN
            IF r.res # Ok THEN Ret(gs, r.res)
            ELSE Ret([r.gs EXCEPT !.current_game = Some([game EXCEPT !.is_settled = TRUE])],
                     Ok)

\* Mutant of draw_and_settle: the drawn card is compared but not stored in
\* game.creator_card (line 124 missing).
draw_and_settle_unrecorded(gs, card, checks) ==
    LET game == unwrap(gs.current_game)
    IN IF game.opponent_card = None THEN Ret(gs, Panic)
       ELSE LET creator_card == card
                opponent_card == unwrap(game.opponent_card)
            IN IF creator_card > opponent_card
                 THEN settle_winner(gs, game.creator, checks)
               ELSE IF opponent_card > creator_card
                 THEN settle_winner(gs, unwrap(game.opponent), checks)
               ELSE settle_draw(gs, checks)

\* reveal_cards, lines 123-152: the creator's card is drawn and recorded, the
\* opponent's card is unwrapped, the cards are compared and the game settled.
draw_and_settle(gs, card, checks) ==
    LET game == unwrap(gs.current_game)
        gs1 == [gs EXCEPT !.current_game =
                             Some([game EXCEPT !.creator_card = Some(card)])]
    IN IF game.opponent_card = None THEN Ret(gs1, Panic)
       ELSE LET creator_card == card
                opponent_card == unwrap(game.opponent_card)
            IN IF creator_card > opponent_card
                 THEN settle_winner(gs1, game.creator, checks)
               ELSE IF opponent_card > creator_card
                 THEN settle_winner(gs1, unwrap(game.opponent), checks)
               ELSE settle_draw(gs1, checks)

\* reveal_cards, lines 119-152: the clock is read, the time since start_time
\* is computed and compared with the window, and then the card is drawn.  A
\* panic of the read or of the subtraction leaves gs as it was.
check_expiry_and_settle(gs, clock, card, checks) ==
    LET game == unwrap(gs.current_game)
        t == get_current_timestamp(clock)
    IN IF t = None THEN Ret(gs, Panic)
       ELSE LET e == elapsed(unwrap(t), game.start_time, checks) IN
            IF e = None THEN Ret(gs, Panic)
            ELSE IF unwrap(e) > ExpirySeconds THEN Ret(gs, ErrExpired)
            ELSE draw_and_settle(gs, card, checks)

\* Mutant of reveal_cards: the is_settled check of line 115 is missing.
reveal_cards_resettle(gs, clock, card, checks) ==
    IF is_some(gs.current_game) THEN
      check_expiry_and_settle(gs, clock, card, checks)
    ELSE Ret(gs, ErrNoGameToReveal)

\* Mutant of reveal_cards: the creator's card is recorded before the expiry
\* check instead of after it.
reveal_cards_draw_first(gs, clock, card, checks) ==
    IF is_some(gs.current_game) THEN
      LET game == unwrap(gs.current_game) IN
      IF game.is_settled THEN Ret(gs, ErrAlreadySettled)
      ELSE LET r == check_expiry_and_settle(gs, clock, card, checks) IN
        IF r.res = ErrExpired
          THEN Ret([gs EXCEPT !.current_game =
                                 Some([game EXCEPT !.creator_card = Some(card)])],
                   ErrExpired)
        ELSE r
    ELSE Ret(gs, ErrNoGameToReveal)

\* reveal_cards reaches get_current_timestamp() at line 119: a game is present
\* and not settled.
reveal_cards_reads_clock(gs) ==
    is_some(gs.current_game) /\ ~unwrap(gs.current_game).is_settled

\* GameState::reveal_cards; clock is the reading of SystemTime::now(), card
\* is draw_card(), checks tells whether the build panics on arithmetic overflow.
reveal_cards(gs, clock, card, checks) ==
    IF is_some(gs.current_game) THEN
      LET game == unwrap(gs.current_game) IN
      IF game.is_settled THEN Ret(gs, ErrAlreadySettled)
      ELSE check_expiry_and_settle(gs, clock, card, checks)
    ELSE Ret(gs, ErrNoGameToReveal)

\* Where a reveal_cards stands that has evaluated `bet_amount * 2` and is
\* about to call reentrant_transfer (line 146).
AtTransfer == "reentrant_transfer"

\* reveal_cards as far as the call of reentrant_transfer: the GameState so
\* far, the value returned (AtTransfer when the call is reached) and the
\* arguments `winner` and `amount` of the call.
Stage(gs, res, winner, amount) ==
    [gs |-> gs, res |-> res, winner |-> winner, amount |-> amount]
Stopped(r) == Stage(r.gs, r.res, "", 0)

\* reveal_cards, lines 114-146: every check, the draw, the draw branch and
\* the evaluation of `bet_amount * 2`, up to the call of reentrant_transfer.
reveal_cards_begin(gs, clock, card, checks) ==
    IF is_some(gs.current_game) THEN
      LET game == unwrap(gs.current_game) IN
      IF game.is_settled THEN Stopped(Ret(gs, ErrAlreadySettled))
      ELSE LET t == get_current_timestamp(clock) IN
        IF t = None THEN Stopped(Ret(gs, Panic))
        ELSE LET e == elapsed(unwrap(t), game.start_time, checks) IN
          IF e = None THEN Stopped(Ret(gs, Panic))
          ELSE IF unwrap(e) > ExpirySeconds THEN Stopped(Ret(gs, ErrExpired))
          ELSE LET gs1 == [gs EXCEPT !.current_game =
                                        Some([game EXCEPT !.creator_card = Some(card)])]
               IN IF game.opponent_card = None THEN Stopped(Ret(gs1, Panic))
                  ELSE LET creator_card == card
                           opponent_card == unwrap(game.opponent_card)
                           amount == game.bet_amount * 2
                       IN IF creator_card = opponent_card
                            THEN Stopped(settle_draw(gs1, checks))
                          ELSE IF amount > U64Max /\ checks
                            THEN Stopped(Ret(gs1, Panic))
                          ELSE Stage(gs1, AtTransfer,
                                     IF creator_card > opponent_card
                                       THEN game.creator
                                       ELSE unwrap(game.opponent),
                                     wrapping(amount))
    ELSE Stopped(Ret(gs, ErrNoGameToReveal))

\* Mutant of transfer_guard: the marker is tested but not set (line 165
\* missing).
transfer_guard_unmarked(gs, winner) ==
    IF contains_key(gs.do_not_use, winner) THEN Ret(gs, ErrReentrancy)
    ELSE Ret(gs, Ok)

\* reentrant_transfer, lines 161-165: the marker of the winner is tested and,
\* when it is not set, set.
transfer_guard(gs, winner) ==
    IF contains_key(gs.do_not_use, winner) THEN Ret(gs, ErrReentrancy)
    ELSE Ret(set_marker(gs, winner), Ok)

\* reveal_cards, line 150: `game.is_settled = true`.
reveal_cards_commit(gs) ==
    [gs EXCEPT !.current_game =
                  Some([unwrap(gs.current_game) EXCEPT !.is_settled = TRUE])]

\* The steps of reveal_cards run one after the other with nothing between.
reveal_cards_in_steps(gs, clock, card, checks) ==
    LET b == reveal_cards_begin(gs, clock, card, checks) IN
    IF b.res # AtTransfer THEN Ret(b.gs, b.res)
    ELSE LET g == transfer_guard(b.gs, b.winner) IN
         IF g.res # Ok THEN Ret(b.gs, g.res)
         ELSE Ret(reveal_cards_commit(clear_marker(g.gs, b.winner)), Ok)

\* Mutant of stake_tokens: wrapping addition instead of checked_add.
stake_tokens_wrapping(gs, user, amount) ==
    LET current_stake == unwrap_or(get(gs.stakes, user), 0)
    IN Ret([gs EXCEPT !.stakes = insert(gs.stakes, user, wrapping(current_stake + amount))], Ok)

\* GameState::stake_tokens
stake_tokens(gs, user, amount) ==
    LET current_stake == unwrap_or(get(gs.stakes, user), 0)
        new_stake == checked_add(current_stake, amount)
    IN IF new_stake = None THEN Ret(gs, ErrOverflow)
       ELSE Ret([gs EXCEPT !.stakes = insert(gs.stakes, user, unwrap(new_stake))], Ok)

\* Mutant of withdraw_stake: a missing entry is read as balance 0 (unwrap_or)
\* instead of failing with "User not found.".
withdraw_stake_default(gs, user, amount) ==
    LET current_stake == unwrap_or(get(gs.stakes, user), 0) IN
    IF current_stake < amount THEN Ret(gs, ErrInsufficientFunds)
    ELSE Ret([gs EXCEPT !.stakes = insert(gs.stakes, user, current_stake - amount)], Ok)

\* GameState::withdraw_stake
withdraw_stake(gs, user, amount) ==
    LET current_stake == get(gs.stakes, user) IN
    IF current_stake = None THEN Ret(gs, ErrUserNotFound)
    ELSE IF unwrap(current_stake) < amount THEN Ret(gs, ErrInsufficientFunds)
    ELSE LET new_stake == checked_sub(unwrap(current_stake), amount) IN
      IF new_stake = None THEN Ret(gs, ErrOverflow)
      ELSE Ret([gs EXCEPT !.stakes = insert(gs.stakes, user, unwrap(new_stake))], Ok)

\* draw_card: the values gen_range(1..=13) can return.
draw_card == CardMin..CardMax

\* The draws the model explores: the two ends of the range, which give a
\* win of either side and both ties.
Cards == {c \in draw_card : c \in {CardMin, CardMax}}

\* ------------------------------------------------------------------ state
VARIABLES
    current_game,     \* GameState.current_game : Option<Game>
    stakes,           \* GameState.stakes : HashMap<String, u64>
    do_not_use,       \* GameState.do_not_use : HashMap<String, bool>
    last,             \* the last call: method, arguments, the reading of
                      \* SystemTime::now() it took (None when it took none)
                      \* and the value returned
    net_deposits,     \* ghost: successful deposits minus successful withdrawals
                      \*        since the ledger was last empty by construction
                      \*        (new or initialize)
    attempt,          \* the reveal_cards in progress: where it stands and
                      \*        its locals `winner` and `amount`
    transferred       \* ghost: per user, the amount line 167 has
                      \*        transferred to the user for the current game

vars == <<current_game, stakes, do_not_use, last, net_deposits, attempt, transferred>>

\* The GameState value held by the variables.
State == [current_game |-> current_game, stakes |-> stakes, do_not_use |-> do_not_use]

Call(op, user, amount, clock, res) ==
    [op |-> op, user |-> user, amount |-> amount, clock |-> clock, res |-> res]

\* The process is alive: no call has panicked.
Running == last.res # Panic

\* No reveal_cards is in progress.
Idle == [pc |-> "idle", winner |-> "", amount |-> 0, clock |-> None]
Quiescent == attempt.pc = "idle"

\* Nothing has been transferred; one more transfer of amount to winner.
NoTransfers == [u \in Users |-> 0]
Transfer(winner, amount) == [transferred EXCEPT ![winner] = @ + amount]

Init ==
    /\ current_game = new.current_game
    /\ stakes = new.stakes
    /\ do_not_use = new.do_not_use
    /\ last = Call("new", "", 0, None, Ok)
    /\ net_deposits = 0
    /\ attempt = Idle
    /\ transferred = NoTransfers

\* Commit the outcome r of a method call that ran as one step; clock is the
\* reading it took.
Commit(r, op, user, amount, clock) ==
    /\ current_game' = r.gs.current_game
    /\ stakes' = r.gs.stakes
    /\ do_not_use' = r.gs.do_not_use
    /\ last' = Call(op, user, amount, clock, r.res)
    /\ attempt' = attempt

\* The readings a call can take: any of ClockReadings when it reaches
\* get_current_timestamp(), and none otherwise.
ReadingsTaken(reads) == IF reads THEN {Some(c) : c \in ClockReadings} ELSE {None}

\* The clock as the methods are handed it: the reading taken, or any reading
\* for a call that does not look at the clock.
ClockOf(reading) == unwrap_or(reading, 0)

StartGame(creator, bet) ==
    /\ Running
    /\ \E clock \in ReadingsTaken(start_game_reads_clock(State, creator, bet)) :
         LET r == start_game(State, creator, bet, ClockOf(clock)) IN
         /\ Commit(r, "start_game", creator, bet, clock)
         /\ transferred' = IF r.res = Ok THEN NoTransfers ELSE transferred
    /\ UNCHANGED net_deposits

StakeTokens(user, amount) ==
    /\ Running
    /\ LET r == stake_tokens(State, user, amount) IN
        /\ Commit(r, "stake_tokens", user, amount, None)
        /\ net_deposits' = IF r.res = Ok THEN net_deposits + amount ELSE net_deposits
    /\ UNCHANGED transferred

JoinGame(opponent) ==
    /\ Running
    /\ \E card \in Cards :
         Commit(join_game(State, opponent, card), "join_game", opponent, 0, None)
    /\ UNCHANGED <<net_deposits, transferred>>

RevealCards ==
    /\ Running
    /\ \E clock \in ReadingsTaken(reveal_cards_reads_clock(State)),
          card \in Cards, checks \in OverflowChecks :
         LET r == reveal_cards(State, ClockOf(clock), card, checks)
             b == reveal_cards_begin(State, ClockOf(clock), card, checks)
         IN /\ Commit(r, "reveal_cards", "", 0, clock)
            /\ transferred' = IF b.res = AtTransfer /\ r.res = Ok
                               THEN Transfer(b.winner, b.amount) ELSE transferred
    /\ UNCHANGED net_deposits

WithdrawStake(user, amount) ==
    /\ Running
    /\ LET r == withdraw_stake(State, user, amount) IN
        /\ Commit(r, "withdraw_stake", user, amount, None)
        /\ net_deposits' = IF r.res = Ok THEN net_deposits - amount ELSE net_deposits
    /\ UNCHANGED transferred

Initialize ==
    /\ Running
    /\ Commit(Ret(initialize(State), Ok), "initialize", "", 0, None)
    /\ net_deposits' = 0
    /\ transferred' = NoTransfers

Next ==
    \/ \E u \in Users, a \in 0..U64Max : StartGame(u, a)
    \/ \E u \in Users : JoinGame(u)
    \/ RevealCards
    \/ Initialize
    \/ \E u \in Users, a \in 0..U64Max : StakeTokens(u, a)
    \/ \E u \in Users, a \in 0..U64Max : WithdrawStake(u, a)

Spec == Init /\ [][Next]_vars

\* ------------------------------------------- reveal_cards step by step
\* reveal_cards, lines 114-146.  A call that reaches the call of
\* reentrant_transfer stands before its marker test; any other one has
\* returned.
RevealBegin ==
    /\ Running
    /\ Quiescent
    /\ \E clock \in ReadingsTaken(reveal_cards_reads_clock(State)),
          card \in Cards, checks \in OverflowChecks :
         LET b == reveal_cards_begin(State, ClockOf(clock), card, checks) IN
         /\ current_game' = b.gs.current_game
         /\ stakes' = b.gs.stakes
         /\ do_not_use' = b.gs.do_not_use
         /\ IF b.res = AtTransfer
              THEN /\ attempt' = [pc |-> "guard", winner |-> b.winner,
                                  amount |-> b.amount, clock |-> clock]
                   /\ last' = last
              ELSE /\ attempt' = attempt
                   /\ last' = Call("reveal_cards", "", 0, clock, b.res)
    /\ UNCHANGED <<net_deposits, transferred>>

\* reentrant_transfer, lines 161-165: with the marker of the winner set, the
\* error is returned and reveal_cards returns it (line 147); otherwise the
\* marker is set.
TransferGuard ==
    /\ Running
    /\ attempt.pc = "guard"
    /\ LET g == transfer_guard(State, attempt.winner) IN
         /\ do_not_use' = g.gs.do_not_use
         /\ IF g.res = Ok
              THEN /\ attempt' = [attempt EXCEPT !.pc = "pay"]
                   /\ last' = last
              ELSE /\ attempt' = Idle
                   /\ last' = Call("reveal_cards", "", 0, attempt.clock, g.res)
    /\ UNCHANGED <<current_game, stakes, net_deposits, transferred>>

\* reentrant_transfer, line 167: the transfer of `amount` to `winner`.  No
\* balance is written.
TransferPay ==
    /\ Running
    /\ attempt.pc = "pay"
    /\ transferred' = Transfer(attempt.winner, attempt.amount)
    /\ attempt' = [attempt EXCEPT !.pc = "clear"]
    /\ UNCHANGED <<current_game, stakes, do_not_use, last, net_deposits>>

\* reentrant_transfer, lines 168-170: the marker is removed and Ok returned
\* to reveal_cards.
TransferClear ==
    /\ Running
    /\ attempt.pc = "clear"
    /\ do_not_use' = clear_marker(State, attempt.winner).do_not_use
    /\ attempt' = [attempt EXCEPT !.pc = "commit"]
    /\ UNCHANGED <<current_game, stakes, last, net_deposits, transferred>>

\* reveal_cards, lines 150-152: the game is marked settled and Ok returned.
RevealCommit ==
    /\ Running
    /\ attempt.pc = "commit"
    /\ current_game' = reveal_cards_commit(State).current_game
    /\ attempt' = Idle
    /\ last' = Call("reveal_cards", "", 0, attempt.clock, Ok)
    /\ UNCHANGED <<stakes, do_not_use, net_deposits, transferred>>

\* A call begins when the call before it has returned; a reveal_cards in
\* progress takes its next step.
NextSettle ==
    \/ RevealBegin
    \/ TransferGuard
    \/ TransferPay
    \/ TransferClear
    \/ RevealCommit
    \/ Quiescent /\ \E u \in Users, a \in 0..U64Max : StartGame(u, a)
    \/ Quiescent /\ \E u \in Users : JoinGame(u)
    \/ Quiescent /\ Initialize
    \/ Quiescent /\ \E u \in Users, a \in 0..U64Max : StakeTokens(u, a)
    \/ Quiescent /\ \E u \in Users, a \in 0..U64Max : WithdrawStake(u, a)

SpecSettle == Init /\ [][NextSettle]_vars

\* ------------------------------------------------------- derived notions
\* The balance of user u in ledger m, 0 when u has no entry.
BalanceIn(m, u) == unwrap_or(get(m, u), 0)

\* The sum of all balances of ledger m.
RECURSIVE SumOver(_, _)
SumOver(m, D) ==
    IF D = {} THEN 0
    ELSE LET k == CHOOSE x \in D : TRUE IN m[k] + SumOver(m, D \ {k})
SumStakes(m) == SumOver(m, DOMAIN m)

\* The bets held by game slot g: those of an unsettled game, one per participant.
HeldBets(g) ==
    IF g = None \/ unwrap(g).is_settled THEN 0
    ELSE unwrap(g).bet_amount * (IF is_some(unwrap(g).opponent) THEN 2 ELSE 1)

\* The lifecycle states of the game slot.
Unsettled == is_some(current_game) /\ ~unwrap(current_game).is_settled
Settled == is_some(current_game) /\ unwrap(current_game).is_settled
Joined == is_some(current_game) /\ is_some(unwrap(current_game).opponent)
AwaitingOpponent == Unsettled /\ ~Joined
ReadyToReveal == Unsettled /\ Joined
\* The reading of SystemTime::now() the last call took.
Reading == unwrap(last.clock)

\* A reveal_cards of the current game that reads clock passes line 119 in
\* either build: the clock is read, the subtraction does not overflow and the
\* window is open.
Unexpired(clock) ==
    \A checks \in OverflowChecks :
        LET t == get_current_timestamp(clock) IN
        /\ is_some(t)
        /\ LET e == elapsed(unwrap(t), unwrap(current_game).start_time, checks) IN
             is_some(e) /\ unwrap(e) <= ExpirySeconds
Returned == {Ok} \cup Errors

\* --------------------------------------------------------------- claims

\* C1 (as claimed; refuted by the code): after every stake_tokens,
\* withdraw_stake, start_game, join_game and reveal_cards that returns, the
\* expired reveals aside, the sum of all balances plus the bets held by the
\* unsettled game equals the successful deposits minus the successful
\* withdrawals.  (An expired reveal changes nothing, so the calls that follow
\* one are held to the same equation.)
C1_Conservation ==
    [][(/\ last'.op \in {"stake_tokens", "withdraw_stake", "start_game",
                         "join_game", "reveal_cards"}
        /\ last'.res \notin {ErrExpired, Panic})
       => SumStakes(stakes') + HeldBets(current_game') = net_deposits']_vars

\* C2 (as claimed; refuted by the code): a reveal_cards that succeeds with
\* two different cards raises the balance of the holder of the higher card
\* by exactly 2 x bet and leaves the other participant's balance unchanged.
C2_WinnerPaid ==
    [][(ReadyToReveal /\ last'.op = "reveal_cards" /\ last'.res = Ok
          /\ unwrap(current_game').creator_card # unwrap(current_game').opponent_card)
       => LET g == unwrap(current_game')
              creator_wins == unwrap(g.creator_card) > unwrap(g.opponent_card)
              winner == IF creator_wins THEN g.creator ELSE unwrap(g.opponent)
              loser == IF creator_wins THEN unwrap(g.opponent) ELSE g.creator
          IN /\ BalanceIn(stakes', winner) = BalanceIn(stakes, winner) + 2 * g.bet_amount
             /\ BalanceIn(stakes', loser) = BalanceIn(stakes, loser)]_vars

\* C3: while a started game is unsettled, every start_game fails with
\* "Game already started." and changes neither the ledger nor the game; the
\* slot never holds more than one game.
C3_Exclusivity ==
    [][/\ Len(current_game') <= 1
       /\ (Unsettled /\ last'.op = "start_game")
            => /\ last'.res = ErrGameInProgress
               /\ stakes' = stakes
               /\ current_game' = current_game]_vars

\* C3 witness: a start_game by another user who could afford the bet was
\* rejected while the game is unsettled.
C3_Witness ==
    /\ Unsettled
    /\ last.op = "start_game" /\ last.res = ErrGameInProgress
    /\ last.user # unwrap(current_game).creator
    /\ last.amount > 0
    /\ BalanceIn(stakes, last.user) >= last.amount

\* C4 (as claimed; refuted by the code): once the game is settled, a
\* start_game by a creator whose balance covers the bet succeeds and replaces
\* the settled game by the new one.
C4_RestartAfterSettle ==
    [][(Settled /\ last'.op = "start_game"
          /\ BalanceIn(stakes, last'.user) >= last'.amount)
       => /\ last'.res = Ok
          /\ is_some(current_game')
          /\ unwrap(current_game').creator = last'.user
          /\ unwrap(current_game').bet_amount = last'.amount
          /\ ~unwrap(current_game').is_settled
          /\ unwrap(current_game').opponent = None]_vars

\* C5: on a settled game every reveal_cards fails with "Game already settled."
\* and changes no balance.
C5_IdempotentSettlement ==
    [][(Settled /\ last'.op = "reveal_cards")
       => /\ last'.res = ErrAlreadySettled
          /\ stakes' = stakes]_vars

\* C5 witness: a second reveal_cards was rejected on a settled game with a
\* positive bet.
C5_Witness ==
    /\ Settled
    /\ unwrap(current_game).bet_amount > 0
    /\ last.op = "reveal_cards" /\ last.res = ErrAlreadySettled

\* C6 (as claimed; refuted by the code): when reveal_cards draws for the
\* creator the card the opponent holds, it returns Ok, marks the game settled
\* and adds exactly bet to the balance of each participant.
C6_DrawRefund ==
    [][(last'.op = "reveal_cards" /\ ReadyToReveal /\ Unexpired(Reading')
          /\ unwrap(current_game').creator_card = unwrap(current_game).opponent_card)
       => LET g == unwrap(current_game) IN
          /\ last'.res = Ok
          /\ unwrap(current_game').is_settled
          /\ BalanceIn(stakes', g.creator) = BalanceIn(stakes, g.creator) + g.bet_amount
          /\ BalanceIn(stakes', unwrap(g.opponent))
               = BalanceIn(stakes, unwrap(g.opponent)) + g.bet_amount]_vars

\* C7 (as claimed; refuted by the code): reveal_cards on an unsettled game
\* fails with "Game expired." exactly when more than 600 seconds have passed
\* since start_time; an expired reveal leaves the game unsettled and the
\* ledger unchanged; a reveal within the window on a joined game returns Ok.
C7_Expiry ==
    [][(Unsettled /\ last'.op = "reveal_cards")
       => /\ (last'.res = ErrExpired)
               <=> (Reading' - unwrap(current_game).start_time > ExpirySeconds)
          /\ (last'.res = ErrExpired)
               => (current_game' = current_game /\ stakes' = stakes)
          /\ (Joined /\ Unexpired(Reading')) => last'.res = Ok]_vars

\* C8: a call that returns an error leaves the ledger, the game slot with
\* every field of the game, and the marker map as they were.
C8_FailureAtomicity ==
    [][(last'.res \in Errors)
       => /\ stakes' = stakes
          /\ current_game' = current_game
          /\ do_not_use' = do_not_use]_vars

\* C8 witness: reveal_cards returned "Game expired." on a joined game whose
\* creator card is still undrawn.
C8_Witness ==
    /\ ReadyToReveal
    /\ unwrap(current_game).creator_card = None
    /\ unwrap(current_game).bet_amount > 0
    /\ last.op = "reveal_cards" /\ last.res = ErrExpired

\* C9 (as claimed; refuted by the code): every call returns Ok or an error;
\* reveal_cards on a game nobody has joined returns such a value, does not
\* settle the game and records no creator card.
C9_NoAbort ==
    [][/\ last'.res \in Returned
       /\ (AwaitingOpponent /\ last'.op = "reveal_cards")
            => /\ ~unwrap(current_game').is_settled
               /\ unwrap(current_game').creator_card = None]_vars

\* C10: stake_tokens(user, amount) returns Ok and sets the balance to the old
\* balance (0 without entry) plus amount when the sum fits the word; it
\* returns "Overflow error." and leaves the entry as it was otherwise; no
\* other entry and no field of the game changes.
C10_Deposit ==
    [][(last'.op = "stake_tokens")
       => LET u == last'.user
              sum == BalanceIn(stakes, u) + last'.amount
          IN /\ (sum <= U64Max) => (last'.res = Ok /\ get(stakes', u) = Some(sum))
             /\ (sum > U64Max) => (last'.res = ErrOverflow
                                     /\ get(stakes', u) = get(stakes, u))
             /\ \A v \in Users \ {u} : get(stakes', v) = get(stakes, v)
             /\ current_game' = current_game]_vars

\* C10 witness: a deposit was rejected with "Overflow error." while a game
\* is open and the other user holds a balance.
C10_Witness ==
    /\ last.op = "stake_tokens" /\ last.res = ErrOverflow
    /\ BalanceIn(stakes, last.user) + last.amount > U64Max
    /\ is_some(current_game)
    /\ \E v \in Users \ {last.user} : BalanceIn(stakes, v) > 0

\* C10: a deposit of 0 to a user without entry succeeded and created the
\* entry with balance 0.
C10_ZeroDeposit ==
    /\ last.op = "stake_tokens" /\ last.res = Ok /\ last.amount = 0
    /\ get(stakes, last.user) = Some(0)

\* C11: withdraw_stake(user, amount) returns "User not found." when the user
\* has no entry, "Insufficient funds." when amount exceeds the balance, and
\* otherwise Ok with the balance lowered by exactly amount (unchanged for
\* amount 0); a failed call leaves the ledger as it was, and no call changes
\* another entry or the game.
C11_Withdraw ==
    [][(last'.op = "withdraw_stake")
       => LET u == last'.user
              a == last'.amount
          IN /\ (get(stakes, u) = None)
                  => (last'.res = ErrUserNotFound /\ stakes' = stakes)
             /\ (is_some(get(stakes, u)) /\ a > stakes[u])
                  => (last'.res = ErrInsufficientFunds /\ stakes' = stakes)
             /\ (is_some(get(stakes, u)) /\ a <= stakes[u])
                  => (last'.res = Ok /\ get(stakes', u) = Some(stakes[u] - a))
             /\ \A v \in Users \ {u} : get(stakes', v) = get(stakes, v)
             /\ current_game' = current_game]_vars

\* C11 witness: a positive withdrawal succeeded while a game is open and the
\* other user holds a balance.
C11_Witness ==
    /\ last.op = "withdraw_stake" /\ last.res = Ok /\ last.amount > 0
    /\ is_some(current_game)
    /\ \E v \in Users \ {last.user} : BalanceIn(stakes, v) > 0

\* C11: a withdrawal by a user without entry was rejected with "User not found.".
C11_UnknownUser ==
    /\ last.op = "withdraw_stake" /\ last.res = ErrUserNotFound
    /\ get(stakes, last.user) = None

\* C12 (as claimed; refuted by the code): whenever a game exists, join_game
\* by its creator fails with "Cannot join your own game.", whether or not an
\* opponent has joined, and the creator is never recorded as the opponent.
C12_NoSelfPlay ==
    [][/\ (is_some(current_game) /\ last'.op = "join_game"
             /\ last'.user = unwrap(current_game).creator)
            => last'.res = ErrSelfJoin
       /\ is_some(current_game')
            => unwrap(current_game').opponent # Some(unwrap(current_game').creator)]_vars

\* C12 (amended): join_game by the creator of the existing game fails with
\* "Cannot join your own game." while no opponent has joined and with
\* "Game already joined." once one has; in both cases nothing changes, and
\* the creator is never recorded as the opponent.
C12_NoSelfPlayAmended ==
    [][/\ (is_some(current_game) /\ last'.op = "join_game"
             /\ last'.user = unwrap(current_game).creator)
            => /\ last'.res = (IF Joined THEN ErrAlreadyJoined ELSE ErrSelfJoin)
               /\ stakes' = stakes
               /\ current_game' = current_game
       /\ is_some(current_game')
            => unwrap(current_game').opponent # Some(unwrap(current_game').creator)]_vars

\* C12 witness: the creator, whose balance covers the bet, tried to join the
\* own game nobody has joined and was rejected.
C12_Witness ==
    /\ AwaitingOpponent
    /\ last.op = "join_game" /\ last.res = ErrSelfJoin
    /\ last.user = unwrap(current_game).creator
    /\ unwrap(current_game).bet_amount > 0
    /\ BalanceIn(stakes, last.user) >= unwrap(current_game).bet_amount

\* C13: a join_game that returns Ok lowers the joiner's balance by exactly
\* the bet, records the joiner as opponent with a drawn card, and changes
\* nothing else: every other balance, the creator, the bet, start_time, the
\* undrawn creator card and the unset settled flag stay as they were.
C13_JoinFrame ==
    [][(last'.op = "join_game" /\ last'.res = Ok)
       => /\ is_some(current_game) /\ is_some(current_game')
          /\ LET g == unwrap(current_game)
                 h == unwrap(current_game')
                 o == last'.user
             IN /\ get(stakes', o) = Some(BalanceIn(stakes, o) - g.bet_amount)
                /\ \A v \in Users \ {o} : get(stakes', v) = get(stakes, v)
                /\ h.opponent = Some(o)
                /\ is_some(h.opponent_card) /\ unwrap(h.opponent_card) \in draw_card
                /\ h.creator = g.creator /\ h.bet_amount = g.bet_amount
                /\ h.start_time = g.start_time
                /\ g.creator_card = None /\ h.creator_card = None
                /\ ~g.is_settled /\ ~h.is_settled
                /\ do_not_use' = do_not_use]_vars

\* C13 witness: an opponent has just joined a game with a positive bet whose
\* creator holds a balance.
C13_Witness ==
    /\ ReadyToReveal
    /\ last.op = "join_game" /\ last.res = Ok
    /\ unwrap(current_game).opponent = Some(last.user)
    /\ unwrap(current_game).bet_amount > 0
    /\ BalanceIn(stakes, unwrap(current_game).creator) > 0

\* C14: without a game, join_game fails with "No game to join." and
\* reveal_cards with "No game to reveal."; once an opponent is set, every
\* join_game fails with "Game already joined." and changes nothing, so the
\* opponent of a game never changes and is debited once; a join_game by
\* another user than the creator whose balance is below the bet of an
\* unjoined game fails with "Insufficient stake.".
C14_LifecycleOrder ==
    [][/\ (current_game = None /\ last'.op = "join_game")
            => last'.res = ErrNoGameToJoin
       /\ (current_game = None /\ last'.op = "reveal_cards")
            => last'.res = ErrNoGameToReveal
       /\ (Joined /\ last'.op = "join_game")
            => (last'.res = ErrAlreadyJoined /\ stakes' = stakes
                  /\ current_game' = current_game)
       /\ (Joined /\ is_some(current_game'))
            => unwrap(current_game').opponent = unwrap(current_game).opponent
       /\ (is_some(current_game) /\ ~Joined /\ last'.op = "join_game"
             /\ last'.user # unwrap(current_game).creator
             /\ BalanceIn(stakes, last'.user) < unwrap(current_game).bet_amount)
            => last'.res = ErrInsufficientStake]_vars

\* C14 witness: a second join_game by a user whose balance covers the bet
\* again was rejected with "Game already joined.".
C14_Witness ==
    /\ Joined
    /\ last.op = "join_game" /\ last.res = ErrAlreadyJoined
    /\ last.user # unwrap(current_game).creator
    /\ unwrap(current_game).bet_amount > 0
    /\ BalanceIn(stakes, last.user) >= unwrap(current_game).bet_amount

\* C14: with no game in the slot, a join_game by a user who holds a balance
\* was rejected with "No game to join.".
C14_NoGameToJoin ==
    /\ current_game = None
    /\ last.op = "join_game" /\ last.res = ErrNoGameToJoin
    /\ BalanceIn(stakes, last.user) > 0

\* C14: a join_game was rejected with "Insufficient stake.".
C14_InsufficientStake ==
    /\ AwaitingOpponent
    /\ last.op = "join_game" /\ last.res = ErrInsufficientStake

\* C15 (as claimed; refuted by the code): with no game present, start_game(creator, bet) fails with
\* "Insufficient stake." and changes nothing when the creator's balance (0
\* without entry) is below the bet; otherwise it returns Ok, lowers only the
\* creator's balance, by exactly the bet, and creates an unsettled game with
\* that creator and bet, no opponent, no card and start_time = now.  A game
\* with bet 0 is joined by any other user and settled by a reveal in time.
C15_StartGame ==
    [][/\ (current_game = None /\ last'.op = "start_game")
            => LET c == last'.user
                   b == last'.amount
                   bal == BalanceIn(stakes, c)
               IN /\ (bal < b) => /\ last'.res = ErrInsufficientStake
                                  /\ stakes' = stakes
                                  /\ current_game' = None
                  /\ (bal >= b) => /\ last'.res = Ok
                                   /\ get(stakes', c) = Some(bal - b)
                                   /\ \A v \in Users \ {c} : get(stakes', v) = get(stakes, v)
                                   /\ current_game' = Some([creator |-> c,
                                                            bet_amount |-> b,
                                                            opponent |-> None,
                                                            creator_card |-> None,
                                                            opponent_card |-> None,
                                                            is_settled |-> FALSE,
                                                            start_time |-> Reading'])
       /\ (AwaitingOpponent /\ unwrap(current_game).bet_amount = 0
             /\ last'.op = "join_game" /\ last'.user # unwrap(current_game).creator)
            => last'.res = Ok
       /\ (last'.op = "reveal_cards" /\ ReadyToReveal
             /\ unwrap(current_game).bet_amount = 0 /\ Unexpired(Reading'))
            => (last'.res = Ok /\ unwrap(current_game').is_settled)]_vars

\* C15: a game with bet 0 was started, joined and settled by users who never
\* deposited more than 0.
C15_Witness ==
    /\ Settled
    /\ unwrap(current_game).bet_amount = 0
    /\ last.op = "reveal_cards" /\ last.res = Ok
    /\ net_deposits = 0

\* C15: a start_game whose creator could afford the positive bet read a clock
\* before UNIX_EPOCH and aborted: the bet is debited and no game exists.
C15_DebitedWithoutGame ==
    /\ current_game = None
    /\ last.op = "start_game" /\ last.res = Panic /\ last.amount > 0
    /\ SumStakes(stakes) + last.amount = net_deposits

\* C15: a start_game with a positive bet equal to the whole balance succeeded.
C15_WholeBalance ==
    /\ AwaitingOpponent
    /\ last.op = "start_game" /\ last.res = Ok /\ last.amount > 0
    /\ get(stakes, last.user) = Some(0)

\* C15: a start_game was rejected with "Insufficient stake.".
C15_InsufficientStake ==
    /\ current_game = None
    /\ last.op = "start_game" /\ last.res = ErrInsufficientStake

\* C16 (as claimed; refuted by the code): initialize leaves no game and
\* changes only the game slot: every ledger entry and balance is the same
\* after it as before.
C16_ResetFrame ==
    [][(last'.op = "initialize")
       => (current_game' = None /\ stakes' = stakes)]_vars

C17_AtTransfer ==
    /\ attempt.pc = "pay" /\ attempt.amount > 0
    /\ do_not_use = insert(EmptyMap, attempt.winner, TRUE)

\* C17: no payout finds the marker of its winner set, and no call returns
\* the reentrancy error: the marker is set and removed inside one call, and a
\* call begins only when the call before it has returned.
C17_NeverRejected ==
    /\ attempt.pc = "guard" => ~contains_key(do_not_use, attempt.winner)
    /\ last.res # ErrReentrancy

\* The steps of reveal_cards, run with nothing between them, are the call.
StepsAreTheCall ==
    \A clock \in ClockReadings, card \in Cards, checks \in OverflowChecks :
        reveal_cards_in_steps(State, clock, card, checks)
          = reveal_cards(State, clock, card, checks)

\* C18 (as claimed; refuted by the code): a reveal_cards in time on a joined
\* game never aborts and never wraps: it returns "Overflow error." and
\* changes no balance, or it returns Ok with the exact results, the payout
\* 2 x bet within the word on a win and each balance raised by exactly the
\* bet on a tie.
C18_CheckedSettlement ==
    [][(last'.op = "reveal_cards" /\ ReadyToReveal /\ Unexpired(Reading'))
       => LET g == unwrap(current_game)
              o == unwrap(g.opponent)
              tie == unwrap(current_game').creator_card = g.opponent_card
          IN \/ (last'.res = ErrOverflow /\ stakes' = stakes)
             \/ /\ last'.res = Ok
                /\ ~tie => 2 * g.bet_amount <= U64Max
                /\ tie => /\ stakes'[g.creator] = stakes[g.creator] + g.bet_amount
                          /\ stakes'[o] = stakes[o] + g.bet_amount]_vars

\* C19: once the game is settled, start_game, join_game and reveal_cards
\* change no field of it, and as long as the slot holds a game it is settled:
\* the flag never returns to false.
C19_SettledIsFinal ==
    [][Settled
       => /\ (last'.op \in {"start_game", "join_game", "reveal_cards"})
               => current_game' = current_game
          /\ is_some(current_game') => unwrap(current_game').is_settled]_vars

\* C19 witness: on a settled game, a start_game by a user whose balance covers
\* the positive bet was rejected.
C19_Witness ==
    /\ Settled
    /\ last.op = "start_game" /\ last.res = ErrGameInProgress
    /\ last.amount > 0
    /\ BalanceIn(stakes, last.user) >= last.amount

\* C19: on a settled game, a join_game was rejected.
C19_JoinRejected ==
    /\ Settled
    /\ last.op = "join_game" /\ last.res = ErrAlreadyJoined

\* C20: in every reachable state, a game without opponent has no opponent
\* card, the opponent of a game differs from its creator, every card present
\* is an integer in 1..13, and a settled game has an opponent and both cards.
C20_WellFormed ==
    is_some(current_game)
    => LET g == unwrap(current_game) IN
       /\ (g.opponent = None) => (g.opponent_card = None)
       /\ is_some(g.opponent) => unwrap(g.opponent) # g.creator
       /\ is_some(g.creator_card) => unwrap(g.creator_card) \in 1..13
       /\ is_some(g.opponent_card) => unwrap(g.opponent_card) \in 1..13
       /\ g.is_settled => /\ is_some(g.opponent)
                          /\ is_some(g.creator_card)
                          /\ is_some(g.opponent_card)

\* C20 witness: a game was settled by a win of the opponent, with both cards
\* recorded.
C20_Witness ==
    /\ Settled
    /\ last.op = "reveal_cards" /\ last.res = Ok
    /\ is_some(unwrap(current_game).creator_card)
    /\ is_some(unwrap(current_game).opponent_card)
    /\ unwrap(unwrap(current_game).opponent_card)
         > unwrap(unwrap(current_game).creator_card)

\* C21: after every call, reset and expired reveals included, the sum of all
\* balances is at most the successful deposits minus the successful
\* withdrawals made since the ledger was last empty by construction, and so
\* at most those of the whole run (what was deposited before a reset is at
\* least what was withdrawn before it); start_game and join_game never raise the sum of the balances,
\* and reveal_cards raises it by at most the bets the game holds, so the sum
\* never exceeds its value before the game started.
C21_NoValueCreation ==
    [][/\ SumStakes(stakes') <= net_deposits'
       /\ (last'.op \in {"start_game", "join_game"})
            => SumStakes(stakes') <= SumStakes(stakes)
       /\ (last'.op = "reveal_cards")
            => SumStakes(stakes') <= SumStakes(stakes) + HeldBets(current_game)]_vars

\* C21 witness: a tie refunded both positive bets and the balances add up to
\* exactly the deposits minus the withdrawals.
C21_Witness ==
    /\ Settled
    /\ last.op = "reveal_cards" /\ last.res = Ok
    /\ unwrap(current_game).creator_card = unwrap(current_game).opponent_card
    /\ unwrap(current_game).bet_amount > 0
    /\ SumStakes(stakes) = net_deposits

\* C21: a reset left an empty ledger and restarted the count of deposits
\* minus withdrawals.
C21_AfterReset ==
    /\ last.op = "initialize"
    /\ stakes = EmptyMap
    /\ net_deposits = 0

\* C21: after an expired reveal the bets stay in the game and the balances
\* add up to less than the deposits minus the withdrawals.
C21_AfterExpiry ==
    /\ ReadyToReveal
    /\ last.op = "reveal_cards" /\ last.res = ErrExpired
    /\ SumStakes(stakes) < net_deposits

\* C22: the marker map do_not_use is empty before and after every call, no
\* call returns the reentrancy error, and a reveal_cards that draws a card
\* different from the opponent's on a joined, unsettled game within the
\* window leaves the game settled.
C22_TransientMarker ==
    [][/\ do_not_use = EmptyMap /\ do_not_use' = EmptyMap
       /\ last'.res # ErrReentrancy
       /\ (/\ last'.op = "reveal_cards"
           /\ ReadyToReveal
           /\ Unexpired(Reading')
           /\ unwrap(current_game').creator_card # unwrap(current_game').opponent_card)
            => Settled']_vars

\* C22: the marker part alone: do_not_use is empty in every state and no
\* call returns the reentrancy error.
C22_MarkerEmpty ==
    do_not_use = EmptyMap /\ last.res # ErrReentrancy

\* C22: a reveal with distinct cards paid out and settled the game while the
\* marker map stayed empty.
C22_SettledByPayout ==
    /\ Settled
    /\ last.op = "reveal_cards" /\ last.res = Ok
    /\ unwrap(current_game).creator_card # unwrap(current_game).opponent_card
    /\ do_not_use = EmptyMap

\* C22: a reveal with distinct cards aborted on bet_amount * 2 and the game
\* is still unsettled.
C22_UnsettledAfterReveal ==
    /\ last.op = "reveal_cards" /\ last.res = Panic
    /\ Unsettled
    /\ unwrap(current_game).creator_card # unwrap(current_game).opponent_card
    /\ unwrap(current_game).bet_amount * 2 > U64Max

====
